---- MODULE Spec2Model ----
(***************************************************************************)
(* A model of the SEO checkup page, src/src/pages/SeoCheckup.tsx: the      *)
(* component state of SeoCheckup, the handlers handleCheck and             *)
(* handlePreview, and the pure analysis functions they call.               *)
(*                                                                         *)
(* HTML and URLs are TLA+ strings. A regular expression of the source is   *)
(* an operator that computes where that expression matches; an expression  *)
(* with the i flag is matched against the lower-cased text, and the        *)
(* matched text is cut out of the original. Positions are 1-based, and 0   *)
(* stands for "no match".                                                  *)
(***************************************************************************)
EXTENDS Integers, Sequences, FiniteSets, TLC

----------------------------------------------------------------------------
(* Strings *)

UpperLetters == "ABCDEFGHIJKLMNOPQRSTUVWXYZ"
LowerLetters == "abcdefghijklmnopqrstuvwxyz"

CharAt(s, i) == SubSeq(s, i, i)

\* The lower-case letter of each upper-case letter.
LowerOf ==
  [c \in {CharAt(UpperLetters, k) : k \in 1..26} |->
     CharAt(LowerLetters, CHOOSE k \in 1..26 : CharAt(UpperLetters, k) = c)]

\* One character, lower-cased as the i flag of a regular expression folds it.
LowerChar(c) == IF c \in DOMAIN LowerOf THEN LowerOf[c] ELSE c

\* String.prototype.toLowerCase, by halves.
RECURSIVE ToLower(_)
ToLower(s) ==
  IF Len(s) = 0 THEN ""
  ELSE IF Len(s) = 1 THEN LowerChar(s)
  ELSE LET h == Len(s) \div 2
       IN  ToLower(SubSeq(s, 1, h)) \o ToLower(SubSeq(s, h + 1, Len(s)))

\* The literal lit stands in s at position i.
IsAt(s, i, lit) ==
  /\ i >= 1
  /\ i + Len(lit) - 1 <= Len(s)
  /\ SubSeq(s, i, i + Len(lit) - 1) = lit

SetMin(S) == CHOOSE x \in S : \A y \in S : x <= y
SetMax(S) == CHOOSE x \in S : \A y \in S : x >= y

\* The first position >= i where lit stands in s, or 0.
IndexFrom(s, i, lit) ==
  LET ks == {k \in i..Len(s) : IsAt(s, k, lit)}
  IN  IF ks = {} THEN 0 ELSE SetMin(ks)

\* String.prototype.includes
Includes(s, lit) == IndexFrom(s, 1, lit) # 0

\* String.prototype.startsWith
StartsWith(s, lit) == IsAt(s, 1, lit)

\* \s of a regular expression, over the characters the inputs use.
IsSpace(c) == c \in {" ", "\t", "\n", "\r"}

\* What . of a regular expression does not match.
IsLineTerminator(c) == c \in {"\n", "\r"}

\* ["'] of a regular expression.
IsQuote(c) == c \in {"\"", "'"}

\* [1-6] of a regular expression.
IsLevelDigit(c) == c \in {"1", "2", "3", "4", "5", "6"}

\* s[i..j] holds no line terminator.
NoLineTerminatorIn(s, i, j) == \A k \in i..j : ~IsLineTerminator(CharAt(s, k))

\* \s+ at position i: the position after the run of white space, or 0 when
\* there is none. (What follows \s+ in the source's expressions is never
\* white space, so the run is taken whole.)
RECURSIVE SkipSpaces(_, _)
SkipSpaces(s, i) ==
  IF i <= Len(s) /\ IsSpace(CharAt(s, i)) THEN SkipSpaces(s, i + 1) ELSE i

SpacesEnd(s, i) == LET j == SkipSpaces(s, i) IN IF j = i THEN 0 ELSE j

\* String.prototype.trim
RECURSIVE TrimStart(_)
TrimStart(s) ==
  IF s # "" /\ IsSpace(Head(s)) THEN TrimStart(Tail(s)) ELSE s

RECURSIVE TrimEnd(_)
TrimEnd(s) ==
  IF s # "" /\ IsSpace(CharAt(s, Len(s)))
  THEN TrimEnd(SubSeq(s, 1, Len(s) - 1)) ELSE s

Trim(s) == TrimEnd(TrimStart(s))

----------------------------------------------------------------------------
(* Regular expressions of the source *)

\* A global match (the g flag): the matches are found left to right, each
\* search starting after the previous match. ends[i] is the position of the
\* last character of the match standing at i, or 0. The matched texts are
\* cut out of s.
RECURSIVE MatchAllFrom(_, _, _)
MatchAllFrom(s, ends, i) ==
  LET starts == {k \in i..Len(s) : ends[k] # 0}
  IN  IF starts = {} THEN <<>>
      ELSE LET k == SetMin(starts)
           IN  <<SubSeq(s, k, ends[k])>> \o MatchAllFrom(s, ends, ends[k] + 1)

\* html.match(/.../gi) || []
MatchAll(s, ends) == MatchAllFrom(s, ends, 1)

\* attr=["']value["'] standing at p: the position of the closing quote, or 0.
QuotedExactEnd(low, p, attr, value) ==
  LET q == p + Len(attr)
      c == q + 1 + Len(value)
  IN  IF /\ IsAt(low, p, attr)
         /\ q <= Len(low) /\ IsQuote(CharAt(low, q))
         /\ IsAt(low, q + 1, value)
         /\ c <= Len(low) /\ IsQuote(CharAt(low, c))
      THEN c ELSE 0

\* attr=["']prefix[^"']*["'] standing at p: the position of the closing
\* quote, or 0. [^"']* runs to the first quote after the prefix.
QuotedPrefixEnd(low, p, attr, prefix) ==
  LET q  == p + Len(attr)
      v  == q + 1 + Len(prefix)
      cs == {k \in v..Len(low) : IsQuote(CharAt(low, k))}
  IN  IF /\ IsAt(low, p, attr)
         /\ q <= Len(low) /\ IsQuote(CharAt(low, q))
         /\ IsAt(low, q + 1, prefix)
         /\ cs # {}
      THEN SetMin(cs) ELSE 0

\* attr=["']value...["'] standing at p: with the whole value given (exact)
\* or only its beginning.
QuotedEnd(low, p, attr, value, exact) ==
  IF exact THEN QuotedExactEnd(low, p, attr, value)
  ELSE QuotedPrefixEnd(low, p, attr, value)

\* <tag[^>]*ATTR[^>]*> standing at i, where ATTR is attr=["']value["'] or
\* attr=["']value[^"']*["']: the position of the closing > of the match, or
\* 0. The first [^>]* is greedy: of the places where ATTR can stand with no
\* > before it, the last one that lets the rest match is taken.
TagWithAttrEnd(low, i, tag, attr, value, exact) ==
  IF ~IsAt(low, i, tag) THEN 0
  ELSE LET from == i + Len(tag)
           gt   == IndexFrom(low, from, ">")
           last == IF gt = 0 THEN Len(low) ELSE gt - 1
           ps   == {p \in from..last :
                      /\ QuotedEnd(low, p, attr, value, exact) # 0
                      /\ IndexFrom(low, QuotedEnd(low, p, attr, value, exact) + 1, ">") # 0}
       IN  IF ps = {} THEN 0
           ELSE IndexFrom(low, QuotedEnd(low, SetMax(ps), attr, value, exact) + 1, ">")

\* The result of String.prototype.match without the g flag: null is <<>>,
\* and a match is <<the text of its capture group 1>>.
NoMatch == <<>>
Matched(group1) == <<group1>>
IsMatch(m) == m # NoMatch
Group1(m) == m[1]

\* The first match of an expression: groups[i] is the pair <<first, last>>
\* of the positions of capture group 1 of the match standing at i (last =
\* first - 1 for an empty group), or <<>>.
FirstMatch(s, groups) ==
  LET starts == {i \in 1..Len(s) : groups[i] # <<>>}
  IN  IF starts = {} THEN NoMatch
      ELSE Matched(SubSeq(s, groups[SetMin(starts)][1], groups[SetMin(starts)][2]))

\* (.*?)CLOSE from position c on, where closes are the positions from c on
\* at which CLOSE stands: the pair of positions of the group, or <<>>. The
\* lazy group ends before the first CLOSE, and . matches no line terminator.
LazyGroup(low, c, closes) ==
  IF closes = {} THEN <<>>
  ELSE IF NoLineTerminatorIn(low, c, SetMin(closes) - 1)
       THEN <<c, SetMin(closes) - 1>> ELSE <<>>

----------------------------------------------------------------------------
(* The analysis functions *)

\* <\/h[1-6]> stands at k.
IsHeadingClose(low, k) ==
  /\ IsAt(low, k, "</h")
  /\ k + 4 <= Len(low)
  /\ IsLevelDigit(CharAt(low, k + 3))
  /\ CharAt(low, k + 4) = ">"

\* /<h[1-6][^>]*>(.*?)<\/h[1-6]>/ standing at i: [^>]* runs to the first >,
\* and the lazy group to the first closing tag of any level.
HeadingEnd(low, i) ==
  IF ~(IsAt(low, i, "<h") /\ i + 2 <= Len(low)
         /\ IsLevelDigit(CharAt(low, i + 2)))
  THEN 0
  ELSE LET gt == IndexFrom(low, i + 3, ">")
       IN  IF gt = 0 THEN 0
           ELSE LET g == LazyGroup(low, gt + 1,
                                   {k \in gt + 1..Len(low) : IsHeadingClose(low, k)})
                IN  IF g = <<>> THEN 0 ELSE g[2] + 5

\* heading.match(/<h([1-6])/)?.[1]: the expression has no i flag. The digit,
\* or "" for undefined.
HeadingLevel(heading) ==
  LET ps == {p \in 1..Len(heading) :
               /\ IsAt(heading, p, "<h")
               /\ p + 2 <= Len(heading)
               /\ IsLevelDigit(CharAt(heading, p + 2))}
  IN  IF ps = {} THEN "" ELSE CharAt(heading, SetMin(ps) + 2)

headingCounts == [h1 |-> 0, h2 |-> 0, h3 |-> 0, h4 |-> 0, h5 |-> 0, h6 |-> 0]

\* headings.forEach(...), from the n-th heading on.
RECURSIVE CountHeadings(_, _, _)
CountHeadings(headings, n, counts) ==
  IF n > Len(headings) THEN counts
  ELSE LET level == HeadingLevel(headings[n])
       IN  CountHeadings(headings, n + 1,
             IF level # "" THEN [counts EXCEPT !["h" \o level] = @ + 1]
             ELSE counts)

analyzeHeadingStructure(html) ==
  LET low      == ToLower(html)
      headings == MatchAll(html, [i \in 1..Len(html) |-> HeadingEnd(low, i)])
  IN  [headings |-> headings, counts |-> CountHeadings(headings, 1, headingCounts)]

\* /<img[^>]*>/ standing at i.
ImgEnd(low, i) == IF IsAt(low, i, "<img") THEN IndexFrom(low, i + 4, ">") ELSE 0

\* The filter of analyzeImages: the image counts as having no alt text.
IsWithoutAlt(img) ==
  \/ ~Includes(img, "alt=")
  \/ Includes(img, "alt=\"\"")
  \/ Includes(img, "alt=''")

analyzeImages(html) ==
  LET low    == ToLower(html)
      images == MatchAll(html, [i \in 1..Len(html) |-> ImgEnd(low, i)])
  IN  [total |-> Len(images), withoutAlt |-> Len(SelectSeq(images, IsWithoutAlt))]

\* /<meta[^>]*property=["']og:[^"']*["'][^>]*>/ standing at i.
OgTagEnd(low, i) == TagWithAttrEnd(low, i, "<meta", "property=", "og:", FALSE)

\* A slip in analyzeSocialTags: the Open Graph expression is used twice.
TwitterTagEnd_AsOg(low, i) == OgTagEnd(low, i)

\* /<meta[^>]*name=["']twitter:[^"']*["'][^>]*>/ standing at i.
TwitterTagEnd(low, i) == TagWithAttrEnd(low, i, "<meta", "name=", "twitter:", FALSE)

analyzeSocialTags(html) ==
  LET low == ToLower(html)
  IN  [openGraph |-> Len(MatchAll(html, [i \in 1..Len(html) |-> OgTagEnd(low, i)])),
       twitter   |-> Len(MatchAll(html, [i \in 1..Len(html) |-> TwitterTagEnd(low, i)]))]

\* window.location.hostname: the host the checkup page itself is served from.
WindowHostname == "seo.app"

\* /<a[^>]*href=["'][^"']*["'][^>]*>/ standing at i.
LinkEnd(low, i) == TagWithAttrEnd(low, i, "<a", "href=", "", FALSE)

IsExternalLink(link) ==
  Includes(link, "http") /\ ~Includes(link, WindowHostname)

\* A slip in analyzeLinks: a link to the own host is no longer internal.
IsInternalLink_NoHttpOnly(link) == ~Includes(link, "http")

IsInternalLink(link) ==
  ~Includes(link, "http") \/ Includes(link, WindowHostname)

analyzeLinks(html) ==
  LET low      == ToLower(html)
      allLinks == MatchAll(html, [i \in 1..Len(html) |-> LinkEnd(low, i)])
  IN  [total    |-> Len(allLinks),
       external |-> Len(SelectSeq(allLinks, IsExternalLink)),
       internal |-> Len(SelectSeq(allLinks, IsInternalLink))]

\* /<title>(.*?)<\/title>/ standing at i: the positions of the group.
TitleAt(low, i) ==
  IF IsAt(low, i, "<title>")
  THEN LazyGroup(low, i + 7, {k \in i + 7..Len(low) : IsAt(low, k, "</title>")})
  ELSE <<>>

\* /<meta\s+name=["']NAME["']/ standing at i: the position of the closing
\* quote of the name, or 0.
MetaNameEnd(low, i, name) ==
  IF ~IsAt(low, i, "<meta") THEN 0
  ELSE LET j == SpacesEnd(low, i + 5)
       IN  IF j = 0 THEN 0 ELSE QuotedExactEnd(low, j, "name=", name)

\* /<meta\s+name=["']NAME["']\s+content=["'](.*?)["']/ standing at i: the
\* positions of the group.
MetaContentAt(low, i, name) ==
  LET q == MetaNameEnd(low, i, name)
      j == IF q = 0 THEN 0 ELSE SpacesEnd(low, q + 1)
  IN  IF /\ j # 0
         /\ IsAt(low, j, "content=")
         /\ j + 8 <= Len(low)
         /\ IsQuote(CharAt(low, j + 8))
      THEN LazyGroup(low, j + 9, {k \in j + 9..Len(low) : IsQuote(CharAt(low, k))})
      ELSE <<>>

DescriptionAt(low, i) == MetaContentAt(low, i, "description")
KeywordsAt(low, i) == MetaContentAt(low, i, "keywords")

\* The viewport and canonical expressions have no group: the match is
\* reported with an empty group 1.
ViewportAt(low, i) ==
  IF MetaNameEnd(low, i, "viewport") # 0 THEN <<i, i - 1>> ELSE <<>>

\* /<link[^>]*rel=["']canonical["'][^>]*>/ standing at i.
CanonicalAt(low, i) ==
  IF TagWithAttrEnd(low, i, "<link", "rel=", "canonical", TRUE) # 0
  THEN <<i, i - 1>> ELSE <<>>

\* The group of the match of the expression named rx standing at i.
GroupAt(rx, low, i) ==
  CASE rx = "title"       -> TitleAt(low, i)
    [] rx = "description" -> DescriptionAt(low, i)
    [] rx = "keywords"    -> KeywordsAt(low, i)
    [] rx = "viewport"    -> ViewportAt(low, i)
    [] rx = "canonical"   -> CanonicalAt(low, i)

\* text.match(/.../i): the expressions have the i flag, so the match is
\* sought in the text folded to lower case and cut out of the text itself.
Match(text, rx) ==
  LET low == ToLower(text)
  IN  FirstMatch(text, [i \in 1..Len(text) |-> GroupAt(rx, low, i)])

titleMatch(text) == Match(text, "title")
descMatch(text) == Match(text, "description")
keywordsMatch(text) == Match(text, "keywords")
viewportMatch(text) == Match(text, "viewport")
canonicalMatch(text) == Match(text, "canonical")

hasSchemaMarkup(text) ==
  Includes(text, "application/ld+json") \/ Includes(text, "itemscope")

----------------------------------------------------------------------------
(* Values *)

\* A value that may be null: null is <<>>, and the value v is <<v>>.
Null == <<>>
Val(v) == <<v>>
Get(o) == o[1]

\* A number that may be NaN.
Number(n) == [nan |-> FALSE, n |-> n]
NaN == [nan |-> TRUE, n |-> 0]

\* Math.round(num / den * 100) of the non-negative integers num and den: the
\* quotient rounded to the nearest integer, a half rounded up; 0 / 0 is NaN.
\* (The only quotients within a half's reach of a rounding error have a
\* den that is a power of two, where the division is exact.)
RoundPercent(num, den) ==
  IF den = 0 THEN NaN ELSE Number((200 * num + den) \div (2 * den))

\* The clock, performance.now(), counts in ticks of half a millisecond.
TicksPerMs == 2

\* Math.round(t) of a time of t ticks, in milliseconds: a half is rounded up.
RoundMs(ticks) == (2 * ticks + TicksPerMs) \div (2 * TicksPerMs)

\* A React node <span className=...>text</span>, by its class and its text.
Span(className, text) == "<span " \o className \o ">" \o text \o "</span>"
MonoSpan(text) == Span("font-mono", text)
ItalicSpan(text) == Span("italic", text)

----------------------------------------------------------------------------
(* URLs *)

\* /^https?:\/\//i.test(u)
HasHttpPrefix(u) ==
  LET low == ToLower(u)
  IN  StartsWith(low, "http://") \/ StartsWith(low, "https://")

\* A slip in the normalisation: the insecure scheme is put in front, as
\* extractHostname does.
NormalizeForFetch_Http(trimmed) ==
  IF ~HasHttpPrefix(trimmed) THEN "http://" \o trimmed ELSE trimmed

\* handleCheck's inputUrl, from the trimmed input.
NormalizeForFetch(trimmed) ==
  IF ~HasHttpPrefix(trimmed) THEN "https://" \o trimmed ELSE trimmed

\* s.replace(/\/+$/, "")
RECURSIVE StripTrailingSlashes(_)
StripTrailingSlashes(s) ==
  IF s # "" /\ CharAt(s, Len(s)) = "/"
  THEN StripTrailingSlashes(SubSeq(s, 1, Len(s) - 1)) ELSE s

RobotsUrl(inputUrl) == StripTrailingSlashes(inputUrl) \o "/robots.txt"

\* The characters that end the authority of a URL with a special scheme.
IsAuthorityEnd(c) == c \in {"/", "\\", "?", "#"}

\* The characters a host may not hold (the forbidden host code points that
\* can be typed into the URL field).
IsForbiddenHostChar(c) ==
  c \in {" ", "<", ">", "[", "]", "^", "|", "%", "\t", "\n", "\r"}

HasForbiddenHostChar(host) ==
  \E k \in 1..Len(host) : IsForbiddenHostChar(CharAt(host, k))

IsDigit(c) == c \in {"0", "1", "2", "3", "4", "5", "6", "7", "8", "9"}
IsColon(c) == c = ":"
IsAtSign(c) == c = "@"

\* The URL parser on a u that starts with http:// or https:// (the only way
\* extractHostname calls it), step by step. It trims the white space around
\* u, skips the slashes after the scheme, takes the authority up to the
\* first / \ ? or #, drops the credentials before the last @ and the port
\* after the first colon left, and fails on an empty host, on a port that
\* is not a number and on a forbidden character in the host. (Hosts that
\* are IP addresses or hold percent escapes are not among the inputs.)
AfterScheme(low) ==
  SubSeq(low, IF StartsWith(low, "https://") THEN 9 ELSE 8, Len(low))

SkipSlashes(rest) ==
  LET ks == {k \in 1..Len(rest) + 1 :
               \A j \in 1..k - 1 : CharAt(rest, j) \in {"/", "\\"}}
  IN  SubSeq(rest, SetMax(ks), Len(rest))

Authority(rest) ==
  LET ends == {k \in 1..Len(rest) : IsAuthorityEnd(CharAt(rest, k))}
  IN  IF ends = {} THEN rest ELSE SubSeq(rest, 1, SetMin(ends) - 1)

HostAndPort(auth) ==
  LET ats == {k \in 1..Len(auth) : IsAtSign(CharAt(auth, k))}
  IN  IF ats = {} THEN auth ELSE SubSeq(auth, SetMax(ats) + 1, Len(auth))

HostPart(hp) ==
  LET cols == {k \in 1..Len(hp) : IsColon(CharAt(hp, k))}
  IN  IF cols = {} THEN hp ELSE SubSeq(hp, 1, SetMin(cols) - 1)

PortPart(hp) == SubSeq(hp, Len(HostPart(hp)) + 2, Len(hp))

\* new URL(u).hostname: the host in lower case, or <<>> when new URL throws.
UrlHostname(u) ==
  LET hp == HostAndPort(Authority(SkipSlashes(AfterScheme(ToLower(Trim(u))))))
  IN  IF \/ HostPart(hp) = ""
         \/ HasForbiddenHostChar(HostPart(hp))
         \/ \E k \in 1..Len(PortPart(hp)) : ~IsDigit(CharAt(PortPart(hp), k))
      THEN <<>>
      ELSE <<HostPart(hp)>>

\* A slip in extractHostname: the catch hands back what it was given.
extractHostname_ReturnsInput(url) ==
  LET u == IF ~HasHttpPrefix(url) THEN "http://" \o url ELSE url
      h == UrlHostname(u)
  IN  IF h = <<>> THEN url ELSE h[1]

extractHostname(url) ==
  LET u == IF ~HasHttpPrefix(url) THEN "http://" \o url ELSE url
      h == UrlHostname(u)
  IN  IF h = <<>> THEN "" ELSE h[1]

----------------------------------------------------------------------------
(* The report *)

Row(label, value, ok, category) ==
  [label |-> label, value |-> value, ok |-> ok, category |-> category]

YaTidak(b) == IF b THEN "Ya" ELSE "Tidak"

\* The limits of the Page Load Time row, in milliseconds.
GoodLoadMs == 3000
MediumLoadMs == 5000

\* A slip in the limits: each limit belongs to the better side.
LoadTimeLabel_Inclusive(pageLoadTime) ==
  IF pageLoadTime <= GoodLoadMs THEN "(Baik)"
  ELSE IF pageLoadTime <= MediumLoadMs THEN "(Sedang)" ELSE "(Lambat)"

LoadTimeLabel(pageLoadTime) ==
  IF pageLoadTime < GoodLoadMs THEN "(Baik)"
  ELSE IF pageLoadTime < MediumLoadMs THEN "(Sedang)" ELSE "(Lambat)"

\* A slip in the H1 Tags label: any h1 at all is called ideal.
H1Label_AnyIsIdeal(h1) ==
  IF h1 >= 1 THEN " (Ideal)" ELSE " (Tidak ada)"

H1Label(h1) ==
  IF h1 = 1 THEN " (Ideal)"
  ELSE IF h1 = 0 THEN " (Tidak ada)" ELSE " (Terlalu banyak)"

\* A slip in the Page Title row: it passes whatever was found.
PageTitleRow_AlwaysOk(tm) ==
  Row("Page Title",
      IF IsMatch(tm) THEN MonoSpan(Group1(tm)) ELSE ItalicSpan("missing"),
      TRUE, "Details")

\* The two rows of category Details of handleCheck.
PageTitleRow(tm) ==
  Row("Page Title",
      IF IsMatch(tm) THEN MonoSpan(Group1(tm)) ELSE ItalicSpan("missing"),
      IsMatch(tm), "Details")

\* A slip in the Meta Description row: the label of the row above is kept.
MetaDescriptionRow_AsPageTitle(dm) ==
  Row("Page Title",
      IF IsMatch(dm) THEN MonoSpan(Group1(dm)) ELSE ItalicSpan("missing"),
      IsMatch(dm), "Details")

MetaDescriptionRow(dm) ==
  Row("Meta Description",
      IF IsMatch(dm) THEN MonoSpan(Group1(dm)) ELSE ItalicSpan("missing"),
      IsMatch(dm), "Details")

\* A slip in the External Links row: it passes only where a link is found.
ExternalLinksRow_NeedsLinks(external) ==
  Row("External Links", ToString(external) \o " links", external > 0, "Links")

\* The External Links row, whose ok is the literal true.
ExternalLinksRow(external) ==
  Row("External Links", ToString(external) \o " links", TRUE, "Links")

\* newResults of handleCheck, from the page text and the three facts about
\* the request.
newResults(text, usesHttps, robotsOk, pageLoadTime) ==
  LET tm == titleMatch(text)
      dm == descMatch(text)
      km == keywordsMatch(text)
      vm == viewportMatch(text)
      cm == canonicalMatch(text)
      headingAnalysis == analyzeHeadingStructure(text)
      imageAnalysis   == analyzeImages(text)
      socialAnalysis  == analyzeSocialTags(text)
      linkAnalysis    == analyzeLinks(text)
      schema          == hasSchemaMarkup(text)
      h1 == headingAnalysis.counts.h1
      h2 == headingAnalysis.counts.h2
      h3 == headingAnalysis.counts.h3
  IN  << Row("HTTPS Usage", YaTidak(usesHttps), usesHttps, "Basic"),
         Row("robots.txt Found",
             IF robotsOk THEN "Ya" ELSE "Mungkin (tidak dapat diverifikasi)",
             robotsOk, "Basic"),
         Row("Page Load Time",
             ToString(pageLoadTime) \o "ms " \o LoadTimeLabel(pageLoadTime),
             pageLoadTime < GoodLoadMs, "Performance"),
         Row("Title Tag Present", YaTidak(IsMatch(tm)), IsMatch(tm), "Meta Tags"),
         Row("Meta Description Present", YaTidak(IsMatch(dm)), IsMatch(dm), "Meta Tags"),
         Row("Meta Keywords", YaTidak(IsMatch(km)), IsMatch(km), "Meta Tags"),
         Row("Viewport Meta Tag", YaTidak(IsMatch(vm)), IsMatch(vm), "Meta Tags"),
         Row("Canonical URL", YaTidak(IsMatch(cm)), IsMatch(cm), "Meta Tags"),
         Row("H1 Tags", ToString(h1) \o " tag" \o H1Label(h1), h1 = 1, "Content"),
         Row("Heading Structure",
             "H1:" \o ToString(h1) \o " H2:" \o ToString(h2) \o " H3:" \o ToString(h3),
             h1 > 0 /\ h2 > 0, "Content"),
         Row("Images Alt Text",
             IF imageAnalysis.total > 0
             THEN ToString(imageAnalysis.total - imageAnalysis.withoutAlt) \o "/"
                    \o ToString(imageAnalysis.total) \o " memiliki alt text"
             ELSE "Tidak ada gambar",
             imageAnalysis.total = 0 \/ imageAnalysis.withoutAlt = 0, "Images"),
         Row("Open Graph Tags",
             IF socialAnalysis.openGraph > 0
             THEN ToString(socialAnalysis.openGraph) \o " tags" ELSE "Tidak ada",
             socialAnalysis.openGraph > 0, "Social"),
         Row("Twitter Cards",
             IF socialAnalysis.twitter > 0
             THEN ToString(socialAnalysis.twitter) \o " tags" ELSE "Tidak ada",
             socialAnalysis.twitter > 0, "Social"),
         Row("Schema Markup", YaTidak(schema), schema, "Technical"),
         Row("Internal Links", ToString(linkAnalysis.internal) \o " links",
             linkAnalysis.internal > 0, "Links"),
         ExternalLinksRow(linkAnalysis.external),
         PageTitleRow(tm),
         MetaDescriptionRow(dm) >>

\* A slip in the score: the Details rows are counted too.
IsScoredCheck_CountsDetails(result) == TRUE

\* The two filters of the score.
IsPassedCheck(result) == result.ok /\ result.category # "Details"
IsScoredCheck(result) == result.category # "Details"

passedChecks(rows) == Len(SelectSeq(rows, IsPassedCheck))
totalChecks(rows) == Len(SelectSeq(rows, IsScoredCheck))

\* The object handed to setSeoScore.
ScoreOf(rows) ==
  [score      |-> passedChecks(rows),
   total      |-> totalChecks(rows),
   percentage |-> RoundPercent(passedChecks(rows), totalChecks(rows))]

\* getDummyData: the rows, the score and the load time of the preview.
PreviewTitle(hostname) ==
  hostname \o " - Platform SEO Terbaik untuk Analisis Website Professional"

PreviewDescription ==
  "Analisis SEO lengkap untuk website Anda. Periksa meta tags, struktur heading, optimasi gambar, dan 15+ faktor SEO penting lainnya untuk meningkatkan ranking di Google."

dummyResults(hostname) ==
  << Row("HTTPS Usage", "Ya", TRUE, "Basic"),
     Row("robots.txt Found", "Ya", TRUE, "Basic"),
     Row("Page Load Time", "1.2s (Sangat Baik)", TRUE, "Performance"),
     Row("Title Tag Present", "Ya", TRUE, "Meta Tags"),
     Row("Meta Description Present", "Ya", TRUE, "Meta Tags"),
     Row("Meta Keywords", "Ya", TRUE, "Meta Tags"),
     Row("Viewport Meta Tag", "Ya", TRUE, "Meta Tags"),
     Row("Canonical URL", "Ya", TRUE, "Meta Tags"),
     Row("H1 Tags", "1 tag (Ideal)", TRUE, "Content"),
     Row("Heading Structure", "H1:1 H2:4 H3:8", TRUE, "Content"),
     Row("Images Alt Text", "12/12 memiliki alt text", TRUE, "Images"),
     Row("Open Graph Tags", "8 tags", TRUE, "Social"),
     Row("Twitter Cards", "5 tags", TRUE, "Social"),
     Row("Schema Markup", "Ya", TRUE, "Technical"),
     Row("Internal Links", "23 links", TRUE, "Links"),
     Row("External Links", "7 links", TRUE, "Links"),
     Row("Page Title", MonoSpan(PreviewTitle(hostname)), TRUE, "Details"),
     Row("Meta Description", MonoSpan(PreviewDescription), TRUE, "Details") >>

DummyPassed == 16
DummyTotal == 16
DummyPercentage == 100
DummyLoadTime == 1200

\* A slip in getDummyData: the score is counted by hand over all the rows.
getDummyData_CountsDetails(hostname) ==
  [results  |-> dummyResults(hostname),
   score    |-> [score |-> 18, total |-> 18, percentage |-> Number(100)],
   loadTime |-> DummyLoadTime]

getDummyData(hostname) ==
  [results  |-> dummyResults(hostname),
   score    |-> [score |-> DummyPassed, total |-> DummyTotal,
                 percentage |-> Number(DummyPercentage)],
   loadTime |-> DummyLoadTime]

----------------------------------------------------------------------------
(* The component SeoCheckup *)

VARIABLES
  url, results, loading, seoScore, loadTime, showPreview,  \* useState
  pc,            \* where the running handleCheck waits: "idle" when none runs
  inputUrl, startTime, pageLoadTime, res, text,   \* locals of handleCheck
  now,           \* performance.now(), in ticks
  net,           \* the requests the latest handler call has issued
  toasts,        \* the notifications the latest handler call has emitted
  steps,         \* the steps the latest handler call has taken, in order
  input          \* the case at hand, where a function is checked on its own

vars == << url, results, loading, seoScore, loadTime, showPreview, pc,
           inputUrl, startTime, pageLoadTime, res, text, now, net, toasts,
           steps, input >>

state == << url, results, loading, seoScore, loadTime, showPreview >>
locals == << inputUrl, startTime, pageLoadTime, res, text >>

\* What the user may type into the URL field.
Urls ==
  { "", "  ", "example.com", "https://a.io/", "http://a.io",
    "HTTPS://a.io", " a.io/p?q=1 " }

\* The bodies a fetched page may have.
PageScenario ==
  "<html><head><title>T</title></head><body><h1>H</h1></body></html>"
PageFull ==
  "<title>S</title><meta name=\"description\" content=\"A\">"
    \o "<meta name='keywords' content='k'><meta name=\"viewport\">"
    \o "<link rel=\"canonical\"><meta property=\"og:t\"><meta name=\"twitter:c\">"
    \o "<p itemscope><h1>S</h1><h2>N</h2><img alt=\"a\"><a href=\"/n\">"
PageMixed ==
  "<TITLE>Up</TITLE>\n<h1>A</h1><h1>B</h1><img src='x'>"
    \o "<a href='http://o.io'>o</a><meta content='d' name='description'>"
PageBare == "<img src='x'>"
Pages == { "", "plain text", PageScenario, PageFull, PageMixed, PageBare }

\* The answers of the main GET: the status is the server's.
Responses == { [ok |-> TRUE, status |-> 200], [ok |-> FALSE, status |-> 404] }

\* How the robots.txt probe may settle. A cross-origin answer to a no-cors
\* request is opaque, and an opaque response is never ok.
RobotsOutcomes ==
  { [settled |-> "resolved", ok |-> TRUE,  type |-> "basic"],
    [settled |-> "resolved", ok |-> FALSE, type |-> "basic"],
    [settled |-> "resolved", ok |-> FALSE, type |-> "opaque"],
    [settled |-> "rejected", ok |-> FALSE, type |-> "error"] }

\* Clock readings when a request starts, and the ticks a GET and the
\* reading of the body may take.
StartTimes == {7}
GetDelays == {5998, 5999, 9998, 9999}
BodyDelays == {400}

Toast(title, variant) == [title |-> title, variant |-> variant]
PreviewToast == Toast("Preview Data Ditampilkan", "default")
InputErrorToast == Toast("Error", "destructive")
SuccessToast == Toast("Analisis Selesai", "default")
FailureToast == Toast("Tidak dapat mengakses website", "destructive")

Request(method, to, mode) == [method |-> method, url |-> to, mode |-> mode]

InitComponent ==
  /\ url = "" /\ results = Null /\ loading = FALSE /\ seoScore = Null
  /\ loadTime = Null /\ showPreview = FALSE

InitHandler ==
  /\ pc = "idle" /\ inputUrl = "" /\ startTime = 0 /\ pageLoadTime = 0
  /\ res = Null /\ text = "" /\ now = 0
  /\ net = <<>> /\ toasts = <<>> /\ steps = <<>>

Init == InitComponent /\ InitHandler /\ input = <<>>

\* onChange of the URL field, which is disabled while loading.
setUrl ==
  /\ ~loading
  /\ \E v \in Urls : url' = v
  /\ UNCHANGED << results, loading, seoScore, loadTime, showPreview, pc,
                  locals, now, net, toasts, steps, input >>

\* A slip in the form: the Preview button is not disabled while loading.
handlePreview_WhileLoading ==
  /\ LET hostname == IF url # ""
                     THEN (IF extractHostname(url) # ""
                           THEN extractHostname(url) ELSE "example.com")
                     ELSE "example.com"
         dummyData == getDummyData(hostname)
     IN  /\ results' = Val(dummyData.results)
         /\ seoScore' = Val(dummyData.score)
         /\ loadTime' = Val(dummyData.loadTime)
  /\ showPreview' = TRUE
  /\ toasts' = << PreviewToast >>
  /\ net' = <<>>
  /\ steps' = << "preview" >>
  /\ UNCHANGED << url, loading, pc, locals, now, input >>

\* onClick of the Preview button, which is disabled while loading.
handlePreview ==
  /\ ~loading
  /\ LET hostname == IF url # ""
                     THEN (IF extractHostname(url) # ""
                           THEN extractHostname(url) ELSE "example.com")
                     ELSE "example.com"
         dummyData == getDummyData(hostname)
     IN  /\ results' = Val(dummyData.results)
         /\ seoScore' = Val(dummyData.score)
         /\ loadTime' = Val(dummyData.loadTime)
  /\ showPreview' = TRUE
  /\ toasts' = << PreviewToast >>
  /\ net' = <<>>
  /\ steps' = << "preview" >>
  /\ UNCHANGED << url, loading, pc, locals, now, input >>

\* A slip in handleCheck: the blank URL is not turned away.
handleCheck_NoValidation ==
  /\ ~loading
  /\ results' = Null /\ seoScore' = Null /\ loadTime' = Null
  /\ showPreview' = FALSE
  /\ inputUrl' = NormalizeForFetch(Trim(url))
  /\ loading' = TRUE
  /\ now' \in StartTimes
  /\ startTime' = now'
  /\ net' = << Request("GET", inputUrl', "cors") >>
  /\ toasts' = <<>>
  /\ steps' = << "GET" >>
  /\ pc' = "get"
  /\ pageLoadTime' = 0 /\ res' = Null /\ text' = ""
  /\ UNCHANGED << url, input >>

\* A slip in handleCheck: the probe is sent along with the main request.
handleCheck_ProbesAtOnce ==
  /\ ~loading
  /\ results' = Null /\ seoScore' = Null /\ loadTime' = Null
  /\ showPreview' = FALSE
  /\ IF Trim(url) = ""
     THEN /\ toasts' = << InputErrorToast >>
          /\ net' = <<>>
          /\ steps' = << "invalid" >>
          /\ UNCHANGED << loading, pc, locals, now >>
     ELSE /\ inputUrl' = NormalizeForFetch(Trim(url))
          /\ loading' = TRUE
          /\ now' \in StartTimes
          /\ startTime' = now'
          /\ net' = << Request("GET", inputUrl', "cors"),
                       Request("HEAD", RobotsUrl(inputUrl'), "no-cors") >>
          /\ toasts' = <<>>
          /\ steps' = << "GET", "HEAD" >>
          /\ pc' = "get"
          /\ pageLoadTime' = 0 /\ res' = Null /\ text' = ""
  /\ UNCHANGED << url, input >>

\* A slip in handleCheck: the score of the last report is not cleared.
handleCheck_KeepsScore ==
  /\ ~loading
  /\ results' = Null /\ seoScore' = seoScore /\ loadTime' = Null
  /\ showPreview' = FALSE
  /\ IF Trim(url) = ""
     THEN /\ toasts' = << InputErrorToast >>
          /\ net' = <<>>
          /\ steps' = << "invalid" >>
          /\ UNCHANGED << loading, pc, locals, now >>
     ELSE /\ inputUrl' = NormalizeForFetch(Trim(url))
          /\ loading' = TRUE
          /\ now' \in StartTimes
          /\ startTime' = now'
          /\ net' = << Request("GET", inputUrl', "cors") >>
          /\ toasts' = <<>>
          /\ steps' = << "GET" >>
          /\ pc' = "get"
          /\ pageLoadTime' = 0 /\ res' = Null /\ text' = ""
  /\ UNCHANGED << url, input >>

\* A slip in handleCheck: the preview notice is not taken down.
handleCheck_KeepsPreview ==
  /\ ~loading
  /\ results' = Null /\ seoScore' = Null /\ loadTime' = Null
  /\ showPreview' = showPreview
  /\ IF Trim(url) = ""
     THEN /\ toasts' = << InputErrorToast >>
          /\ net' = <<>>
          /\ steps' = << "invalid" >>
          /\ UNCHANGED << loading, pc, locals, now >>
     ELSE /\ inputUrl' = NormalizeForFetch(Trim(url))
          /\ loading' = TRUE
          /\ now' \in StartTimes
          /\ startTime' = now'
          /\ net' = << Request("GET", inputUrl', "cors") >>
          /\ toasts' = <<>>
          /\ steps' = << "GET" >>
          /\ pc' = "get"
          /\ pageLoadTime' = 0 /\ res' = Null /\ text' = ""
  /\ UNCHANGED << url, input >>

\* A slip in the form: the submit button is not disabled while loading.
handleCheck_WhileLoading ==
  /\ results' = Null /\ seoScore' = Null /\ loadTime' = Null
  /\ showPreview' = FALSE
  /\ IF Trim(url) = ""
     THEN /\ toasts' = << InputErrorToast >>
          /\ net' = <<>>
          /\ steps' = << "invalid" >>
          /\ UNCHANGED << loading, pc, locals, now >>
     ELSE /\ inputUrl' = NormalizeForFetch(Trim(url))
          /\ loading' = TRUE
          /\ now' \in StartTimes
          /\ startTime' = now'
          /\ net' = << Request("GET", inputUrl', "cors") >>
          /\ toasts' = <<>>
          /\ steps' = << "GET" >>
          /\ pc' = "get"
          /\ pageLoadTime' = 0 /\ res' = Null /\ text' = ""
  /\ UNCHANGED << url, input >>

\* onSubmit of the form, whose button is disabled while loading: handleCheck
\* up to its first await, or to its return on a blank URL.
handleCheck ==
  /\ ~loading
  /\ results' = Null /\ seoScore' = Null /\ loadTime' = Null
  /\ showPreview' = FALSE
  /\ IF Trim(url) = ""
     THEN /\ toasts' = << InputErrorToast >>
          /\ net' = <<>>
          /\ steps' = << "invalid" >>
          /\ UNCHANGED << loading, pc, locals, now >>
     ELSE /\ inputUrl' = NormalizeForFetch(Trim(url))
          /\ loading' = TRUE
          /\ now' \in StartTimes
          /\ startTime' = now'
          /\ net' = << Request("GET", inputUrl', "cors") >>
          /\ toasts' = <<>>
          /\ steps' = << "GET" >>
          /\ pc' = "get"
          /\ pageLoadTime' = 0 /\ res' = Null /\ text' = ""
  /\ UNCHANGED << url, input >>

\* A slip in the catch block: the failure is swallowed without a notice.
Catch_Silent(step) ==
  /\ toasts' = toasts
  /\ steps' = Append(steps, step)
  /\ loading' = FALSE
  /\ pc' = "idle"

\* A slip in the catch block: it returns, and loading is never put back.
Catch_KeepsLoading(step) ==
  /\ toasts' = Append(toasts, FailureToast)
  /\ steps' = Append(steps, step)
  /\ loading' = loading
  /\ pc' = "idle"

\* The catch block of handleCheck and the statement after it.
Catch(step) ==
  /\ toasts' = Append(toasts, FailureToast)
  /\ steps' = Append(steps, step)
  /\ loading' = FALSE
  /\ pc' = "idle"

\* A slip in handleCheck: an answer that is not ok is thrown into the catch
\* block.
GetResolved_ChecksOk ==
  /\ pc = "get"
  /\ \E r \in Responses, d \in GetDelays :
       /\ res' = Val(r)
       /\ now' = now + d
       /\ pageLoadTime' = RoundMs(now' - startTime)
       /\ loadTime' = Val(pageLoadTime')
       /\ IF r.ok
          THEN /\ steps' = steps \o << "GET:resolved", "text" >>
               /\ pc' = "text"
               /\ UNCHANGED << loading, toasts >>
          ELSE Catch("GET:not ok")
  /\ UNCHANGED << url, results, seoScore, showPreview, inputUrl,
                  startTime, text, net, input >>

\* The main fetch resolves: lines 176-180, up to the await of res.text().
GetResolved ==
  /\ pc = "get"
  /\ \E r \in Responses, d \in GetDelays :
       /\ res' = Val(r)
       /\ now' = now + d
       /\ pageLoadTime' = RoundMs(now' - startTime)
       /\ loadTime' = Val(pageLoadTime')
  /\ steps' = steps \o << "GET:resolved", "text" >>
  /\ pc' = "text"
  /\ UNCHANGED << url, results, loading, seoScore, showPreview, inputUrl,
                  startTime, text, net, toasts, input >>

\* The main fetch rejects.
GetRejected ==
  /\ pc = "get"
  /\ Catch("GET:rejected")
  /\ UNCHANGED << url, results, seoScore, loadTime, showPreview, locals,
                  now, net, input >>

\* The body has been read: lines 183-187, up to the await of the probe.
TextResolved ==
  /\ pc = "text"
  /\ \E page \in Pages, d \in BodyDelays :
       /\ text' = page
       /\ now' = now + d
  /\ net' = Append(net, Request("HEAD", RobotsUrl(inputUrl), "no-cors"))
  /\ steps' = steps \o << "text:resolved", "HEAD" >>
  /\ pc' = "robots"
  /\ UNCHANGED << state, inputUrl, startTime, pageLoadTime, res, toasts,
                  input >>

\* Reading the body rejects.
TextRejected ==
  /\ pc = "text"
  /\ Catch("text:rejected")
  /\ UNCHANGED << url, results, seoScore, loadTime, showPreview, locals,
                  now, net, input >>

\* robotsRes.ok || robotsRes.type === "opaque", or false from the inner catch.
robotsOk(outcome) ==
  IF outcome.settled = "resolved"
  THEN outcome.ok \/ outcome.type = "opaque"
  ELSE FALSE

usesHttps(requested) == StartsWith(requested, "https://")

\* A slip in handleCheck: no inner try around the probe, so that its
\* rejection lands in the outer catch.
RobotsSettled_NoInnerTry ==
  /\ pc = "robots"
  /\ \E outcome \in RobotsOutcomes :
       IF outcome.settled = "rejected"
       THEN /\ toasts' = Append(toasts, FailureToast)
            /\ steps' = Append(steps, "HEAD:rejected")
            /\ UNCHANGED << results, seoScore >>
       ELSE LET rows == newResults(text, usesHttps(inputUrl), robotsOk(outcome),
                                   pageLoadTime)
            IN  /\ results' = Val(rows)
                /\ seoScore' = Val(ScoreOf(rows))
                /\ steps' = steps \o << "HEAD:resolved", "extract", "publish" >>
                /\ toasts' = Append(toasts, SuccessToast)
  /\ loading' = FALSE
  /\ pc' = "idle"
  /\ UNCHANGED << url, loadTime, showPreview, locals, now, net, input >>

\* The probe settles either way: lines 188-308 and 316, which run without
\* another await.
RobotsSettled ==
  /\ pc = "robots"
  /\ \E outcome \in RobotsOutcomes :
       LET rows == newResults(text, usesHttps(inputUrl), robotsOk(outcome),
                              pageLoadTime)
       IN  /\ results' = Val(rows)
           /\ seoScore' = Val(ScoreOf(rows))
           /\ steps' = steps \o << "HEAD:" \o outcome.settled, "extract",
                                   "publish" >>
  /\ toasts' = Append(toasts, SuccessToast)
  /\ loading' = FALSE
  /\ pc' = "idle"
  /\ UNCHANGED << url, loadTime, showPreview, locals, now, net, input >>

Next ==
  \/ setUrl
  \/ handlePreview
  \/ handleCheck
  \/ GetResolved
  \/ GetRejected
  \/ TextResolved
  \/ TextRejected
  \/ RobotsSettled

Spec == Init /\ [][Next]_vars

\* The component where the network answers: every fetch that has been
\* issued settles, and so does every reading of a body. For the robots
\* probe this is weak fairness of RobotsSettled written out: RobotsSettled
\* is enabled exactly where pc = "robots", and it is the only step that
\* leaves that place, so it is taken if and only if the request does not
\* stay there for ever.
SpecLive ==
  /\ Spec
  /\ WF_vars(GetResolved \/ GetRejected)
  /\ WF_vars(TextResolved \/ TextRejected)
  /\ []<>(pc # "robots")

----------------------------------------------------------------------------
(* The analysis on its own: the synchronous part of handleCheck, lines     *)
(* 191-303, applied to pages written out from a description of their tags, *)
(* so that what a page holds is known apart from what the analysis finds.  *)

MaxHeadings == 3
MaxMetas == 1
MaxImages == 2
MaxLinks == 2
MaxSocial == 2
MaxNests == 1

\* A heading element of a level, its tag name in lower or upper case.
HeadingTags == [kind : {"heading"}, level : {1, 2}, upper : BOOLEAN]

\* A meta or link tag that carries the attributes a detector looks for:
\* as the detector's expression is written ("plain"), with the two
\* attributes in the other order ("swapped"), with another attribute
\* between them ("between"), with spaces around = ("spaced"), or in upper
\* case ("upper").
DetectorNames == {"description", "keywords", "viewport", "canonical"}
TagVariants == {"plain", "swapped", "between", "spaced", "upper"}
MetaTags == [kind : {"meta"}, name : DetectorNames, variant : TagVariants]

\* An img tag: without an alt attribute, with an empty one in double or in
\* single quotes, or with the alt text "a"; written plainly, with the
\* attribute name in upper case, or with a data-alt attribute before it.
AltKinds == {"none", "empty", "emptySq", "text"}
ImgVariants == {"plain", "upperAttr", "dataAlt"}
ImgTags == [kind : {"img"}, alt : AltKinds, variant : ImgVariants]

\* An anchor tag: without an href, or with an href that is relative, that
\* leads to another host, that leads to the own host, or that leads to
\* another host with the scheme in upper case.
Hrefs == {"none", "/n", "http://o.io/", "https://seo.app/x", "HTTP://O.IO/"}
LinkTags == [kind : {"a"}, href : Hrefs]

\* A meta tag of Open Graph or of Twitter Cards, for one of two properties.
SocialTags == [kind : {"social"}, family : {"og", "twitter"}, prop : {"title", "card"}]

\* A heading element that holds another heading element.
NestTags == [kind : {"nest"}, outer : {1, 2}, inner : {1, 2}]

SeqsUpTo(S, n) == UNION {[1..k -> S] : k \in 1..n}

\* The pages: tags of one kind, up to the bound of that kind, or no tag.
Docs ==
  {<<>>} \cup SeqsUpTo(HeadingTags, MaxHeadings)
         \cup SeqsUpTo(MetaTags, MaxMetas)
         \cup SeqsUpTo(ImgTags, MaxImages)
         \cup SeqsUpTo(LinkTags, MaxLinks)
         \cup SeqsUpTo(SocialTags, MaxSocial)
         \cup SeqsUpTo(NestTags, MaxNests)

RenderHeading(t) ==
  LET h == (IF t.upper THEN "H" ELSE "h") \o ToString(t.level)
  IN  "<" \o h \o ">T</" \o h \o ">"

\* The two attributes of a tag, as name and value.
FirstAttr(name) ==
  IF name = "canonical" THEN <<"rel", "canonical">> ELSE <<"name", name>>
SecondAttr(name) ==
  IF name = "canonical" THEN <<"href", "/">> ELSE <<"content", "c">>
TagName(name) == IF name = "canonical" THEN "link" ELSE "meta"

UpperName(n) ==
  CASE n = "meta" -> "META" [] n = "link" -> "LINK" [] n = "name" -> "NAME"
    [] n = "content" -> "CONTENT" [] n = "rel" -> "REL" [] n = "href" -> "HREF"

Attr(a, eq) == a[1] \o eq \o "\"" \o a[2] \o "\""
UpperAttr(a) == UpperName(a[1]) \o "=\"" \o a[2] \o "\""

RenderMeta(t) ==
  LET a == FirstAttr(t.name)
      b == SecondAttr(t.name)
      n == TagName(t.name)
  IN  CASE t.variant = "plain" ->
             "<" \o n \o " " \o Attr(a, "=") \o " " \o Attr(b, "=") \o ">"
        [] t.variant = "swapped" ->
             "<" \o n \o " " \o Attr(b, "=") \o " " \o Attr(a, "=") \o ">"
        [] t.variant = "between" ->
             "<" \o n \o " " \o Attr(a, "=") \o " lang=\"en\" " \o Attr(b, "=") \o ">"
        [] t.variant = "spaced" ->
             "<" \o n \o " " \o Attr(a, " = ") \o " " \o Attr(b, " = ") \o ">"
        [] t.variant = "upper" ->
             "<" \o UpperName(n) \o " " \o UpperAttr(a) \o " " \o UpperAttr(b) \o ">"

RenderAlt(alt, attrName) ==
  CASE alt = "none"    -> ""
    [] alt = "empty"   -> " " \o attrName \o "=\"\""
    [] alt = "emptySq" -> " " \o attrName \o "=''"
    [] alt = "text"    -> " " \o attrName \o "=\"a\""

RenderImg(t) ==
  "<img src=\"x\""
    \o (IF t.variant = "dataAlt" THEN " data-alt=\"z\"" ELSE "")
    \o RenderAlt(t.alt, IF t.variant = "upperAttr" THEN "ALT" ELSE "alt")
    \o ">"

RenderLink(t) ==
  IF t.href = "none" THEN "<a name=\"t\">t</a>"
  ELSE "<a href=\"" \o t.href \o "\">t</a>"

RenderSocial(t) ==
  IF t.family = "og"
  THEN "<meta property=\"og:" \o t.prop \o "\" content=\"x\">"
  ELSE "<meta name=\"twitter:" \o t.prop \o "\" content=\"y\">"

RenderNest(t) ==
  "<h" \o ToString(t.outer) \o ">A<h" \o ToString(t.inner) \o ">B</h"
    \o ToString(t.inner) \o "></h" \o ToString(t.outer) \o ">"

RenderTag(t) ==
  CASE t.kind = "heading" -> RenderHeading(t)
    [] t.kind = "meta"    -> RenderMeta(t)
    [] t.kind = "img"     -> RenderImg(t)
    [] t.kind = "a"       -> RenderLink(t)
    [] t.kind = "social"  -> RenderSocial(t)
    [] t.kind = "nest"    -> RenderNest(t)

RECURSIVE Render(_)
Render(doc) ==
  IF doc = <<>> THEN "" ELSE RenderTag(Head(doc)) \o Render(Tail(doc))

InitAnalysis ==
  /\ InitComponent
  /\ input \in Docs
  /\ text = Render(input)
  /\ pc = "analysis"
  /\ inputUrl = "" /\ startTime = 0 /\ pageLoadTime = 0 /\ res = Null
  /\ now = 0 /\ net = <<>> /\ toasts = <<>> /\ steps = <<>>

\* Lines 191-303 of handleCheck on the page text.
Analyze ==
  /\ pc = "analysis"
  /\ LET rows == newResults(text, usesHttps(inputUrl), FALSE, pageLoadTime)
     IN  /\ results' = Val(rows)
         /\ seoScore' = Val(ScoreOf(rows))
  /\ pc' = "analysed"
  /\ UNCHANGED << url, loading, loadTime, showPreview, locals, now, net,
                  toasts, steps, input >>

SpecAnalysis == InitAnalysis /\ [][Analyze]_vars

----------------------------------------------------------------------------
(* The score on its own: lines 298-300 and 303 of handleCheck applied to   *)
(* any list of rows.                                                       *)

MaxRows == 3

RowKinds ==
  { Row("check", "Ya", ok, category) :
      ok \in BOOLEAN, category \in {"Basic", "Details"} }

InitScore ==
  /\ InitComponent
  /\ input \in {<<>>} \cup SeqsUpTo(RowKinds, MaxRows)
  /\ pc = "score"
  /\ inputUrl = "" /\ startTime = 0 /\ pageLoadTime = 0 /\ res = Null
  /\ text = "" /\ now = 0 /\ net = <<>> /\ toasts = <<>> /\ steps = <<>>

ComputeScore ==
  /\ pc = "score"
  /\ seoScore' = Val(ScoreOf(input))
  /\ pc' = "scored"
  /\ UNCHANGED << url, results, loading, loadTime, showPreview, locals, now,
                  net, toasts, steps, input >>

SpecScore == InitScore /\ [][ComputeScore]_vars

----------------------------------------------------------------------------
(* Properties *)

\* The row of a report with a label.
RowOf(rows, label) == rows[CHOOSE i \in DOMAIN rows : rows[i].label = label]

\* Where a step stands among the steps of the latest handler call, or 0.
Pos(step) ==
  IF \E i \in DOMAIN steps : steps[i] = step
  THEN CHOOSE i \in DOMAIN steps : steps[i] = step
  ELSE 0

LastStep == IF steps = <<>> THEN "" ELSE steps[Len(steps)]

\* The component holds a report that handleCheck has assembled.
HasLiveReport == results # Null /\ LastStep = "publish"

\* C1: in every report assembled by handleCheck, total is the number of rows
\* whose category is not Details, passed is the number of those rows that
\* are ok, and percentage is 100 * passed / total rounded to the nearest
\* integer (a half upwards): 2 * total * percentage <= 200 * passed + total
\* < 2 * total * (percentage + 1).
C1_ScoreCountsScoredRows ==
  HasLiveReport =>
    LET rows   == Get(results)
        sc     == Get(seoScore)
        scored == {i \in DOMAIN rows : rows[i].category # "Details"}
        passed == {i \in scored : rows[i].ok}
    IN  /\ seoScore # Null
        /\ sc.total = Cardinality(scored)
        /\ sc.score = Cardinality(passed)
        /\ ~sc.percentage.nan
        /\ 2 * sc.total * sc.percentage.n <= 200 * sc.score + sc.total
        /\ 200 * sc.score + sc.total < 2 * sc.total * (sc.percentage.n + 1)

\* A live report whose percentage is a rounded-up half: 14 of 16 rows pass,
\* 87.5 percent, reported as 88.
C1_Witness ==
  /\ HasLiveReport
  /\ Get(seoScore).score = 14
  /\ Get(seoScore).percentage = Number(88)
  /\ \E i \in DOMAIN Get(results) : Get(results)[i].category = "Details"

\* C2: when the GET of the main page rejects, the request is over: nothing
\* is extracted, no robots probe is issued (the GET is the only request),
\* results and seoScore stay null, and exactly one notification, the
\* failure one, is emitted.
C2_GetFailureAborts ==
  LastStep = "GET:rejected" =>
    /\ results = Null /\ seoScore = Null
    /\ Pos("extract") = 0 /\ Pos("publish") = 0 /\ Pos("HEAD") = 0
    /\ Len(net) = 1 /\ net[1].method = "GET"
    /\ toasts = << FailureToast >>
    /\ ~loading /\ pc = "idle"

C2_Witness == LastStep = "GET:rejected" /\ net # <<>> /\ toasts # <<>>

\* C3: a handleCheck call on an empty or white-space-only URL emits the
\* error notification, issues no request and does not set loading.
C3_BlankUrlIsTurnedAway ==
  [][ (handleCheck /\ Trim(url) = "") =>
        /\ toasts' = << InputErrorToast >>
        /\ net' = <<>>
        /\ ~loading'
        /\ pc' = "idle" ]_vars

\* handleCheck has run on a white-space-only URL.
C3_Witness ==
  /\ url # "" /\ Trim(url) = ""
  /\ steps = << "invalid" >>
  /\ toasts = << InputErrorToast >>

\* The labels of a full report.
ReportLabels == {dummyResults("")[i].label : i \in DOMAIN dummyResults("")}

\* C4: a rejected robots probe does not end the request: the full report
\* and a score are published, with the robots.txt row not passed, and the
\* success notification is the only one. A request ends without a report
\* only when the fetch of the main page fails, in its GET or in the reading
\* of its body.
C4_RobotsFailureDegrades ==
  /\ Pos("HEAD:rejected") # 0 =>
       /\ HasLiveReport /\ seoScore # Null
       /\ {Get(results)[i].label : i \in DOMAIN Get(results)} = ReportLabels
       /\ ~RowOf(Get(results), "robots.txt Found").ok
       /\ toasts = << SuccessToast >>
  /\ (pc = "idle" /\ Pos("GET") # 0 /\ results = Null) =>
       LastStep \in {"GET:rejected", "text:rejected"}

C4_Witness ==
  /\ Pos("HEAD:rejected") # 0
  /\ HasLiveReport
  /\ ~RowOf(Get(results), "robots.txt Found").ok

\* The rows of category Details of a report.
DetailsRows(rows) == {i \in DOMAIN rows : rows[i].category = "Details"}

\* C5, as claimed: every Details row of every report is marked passed.
C5_DetailsAlwaysPass ==
  results # Null =>
    \A i \in DetailsRows(Get(results)) : Get(results)[i].ok

\* C5, amended: a Details row of the preview is marked passed; a Details row
\* of a live report is marked passed exactly when its value was found, that
\* is when it does not show the "missing" marker, which is when the row
\* that reports the presence of the title or of the description passes.
C5_DetailsPassWhenFound ==
  results # Null =>
    LET rows == Get(results)
    IN  /\ \A i \in DetailsRows(rows) :
             IF showPreview THEN rows[i].ok
             ELSE rows[i].ok <=> rows[i].value # ItalicSpan("missing")
        /\ RowOf(rows, "Page Title").ok = RowOf(rows, "Title Tag Present").ok
        /\ RowOf(rows, "Meta Description").ok
             = RowOf(rows, "Meta Description Present").ok

\* A live report of a page with a title and without a description.
C5_Witness ==
  /\ HasLiveReport
  /\ RowOf(Get(results), "Page Title").ok
  /\ ~RowOf(Get(results), "Meta Description").ok
  /\ RowOf(Get(results), "Meta Description").value = ItalicSpan("missing")

IsDocOf(kind) ==
  /\ pc = "analysed"
  /\ input # <<>>
  /\ \A i \in DOMAIN input : input[i].kind = kind

\* C7: a page with exactly one h1 element, its tag in lower or upper case,
\* and any other headings has the H1 Tags row passed, with the count 1.
C7_OneH1Passes ==
  (/\ IsDocOf("heading")
   /\ Cardinality({i \in DOMAIN input : input[i].level = 1}) = 1) =>
    /\ RowOf(Get(results), "H1 Tags").ok
    /\ RowOf(Get(results), "H1 Tags").value = "1 tag (Ideal)"

\* The row that reports a detector.
DetectorLabel(name) ==
  CASE name = "description" -> "Meta Description Present"
    [] name = "keywords"    -> "Meta Keywords"
    [] name = "viewport"    -> "Viewport Meta Tag"
    [] name = "canonical"   -> "Canonical URL"

\* C8: a tag that carries the attributes of a detector is reported present,
\* in whatever order, spacing and letter case they are written.
C8_DetectorsFindTheirTag ==
  IsDocOf("meta") =>
    \A i \in DOMAIN input :
      RowOf(Get(results), DetectorLabel(input[i].name)).ok

\* C9: an img tag counts as missing its alt text exactly when it has no alt
\* attribute or an empty one, and the Images Alt Text row passes exactly
\* when no image of the page is missing it.
C9_MissingAltIsCounted ==
  IsDocOf("img") =>
    LET missing == Cardinality({i \in DOMAIN input : input[i].alt # "text"})
        row     == RowOf(Get(results), "Images Alt Text")
    IN  /\ row.ok <=> missing = 0
        /\ row.value = ToString(Len(input) - missing) \o "/"
                         \o ToString(Len(input)) \o " memiliki alt text"

\* Where the settling of the robots probe stands among the steps, or 0.
HeadSettledPos ==
  IF Pos("HEAD:resolved") # 0 THEN Pos("HEAD:resolved") ELSE Pos("HEAD:rejected")

\* C10: the steps of a request come in one order: the GET, its answer, the
\* reading of the body, the body, the HEAD probe, its settling, extraction
\* and publication. The probe is issued only once the GET has resolved, and
\* a live report is held only once the probe has settled.
C10_StepsInOrder ==
  /\ Pos("GET:resolved") # 0 => Pos("GET") # 0 /\ Pos("GET") < Pos("GET:resolved")
  /\ Pos("text") # 0 => Pos("GET:resolved") # 0 /\ Pos("GET:resolved") < Pos("text")
  /\ Pos("text:resolved") # 0 => Pos("text") # 0 /\ Pos("text") < Pos("text:resolved")
  /\ Pos("HEAD") # 0 =>
       Pos("text:resolved") # 0 /\ Pos("text:resolved") < Pos("HEAD")
  /\ HeadSettledPos # 0 => Pos("HEAD") # 0 /\ Pos("HEAD") < HeadSettledPos
  /\ Pos("extract") # 0 => HeadSettledPos # 0 /\ HeadSettledPos < Pos("extract")
  /\ Pos("publish") # 0 => Pos("extract") # 0 /\ Pos("extract") < Pos("publish")
  /\ (\E i \in DOMAIN net : net[i].method = "HEAD") =>
       /\ Pos("GET:resolved") # 0
       /\ net[1].method = "GET"
  /\ (results # Null /\ ~showPreview) => HeadSettledPos # 0
  /\ (seoScore # Null /\ ~showPreview) => HeadSettledPos # 0

\* A request that has run through all its steps.
C10_Witness ==
  /\ HasLiveReport
  /\ Len(net) = 2 /\ net[2].method = "HEAD"
  /\ Pos("publish") = Len(steps)
  /\ Pos("GET") = 1

\* A request is issued by the step: the requests grow by one.
Issues(method) ==
  /\ net' # net
  /\ net' # <<>>
  /\ net'[Len(net')].method = method

\* C11: a request is in flight exactly while loading is true, and while it
\* is no other handler runs: no GET of another request is issued, the URL
\* field keeps its text and no preview is shown. The report published when
\* the request completes is the report of the page this request has read,
\* fetched from the URL that stands in the field.
C11_OneRequestAtATime ==
  /\ [](loading <=> pc # "idle")
  /\ [](loading => /\ results = Null /\ seoScore = Null /\ ~showPreview
                   /\ inputUrl = NormalizeForFetch(Trim(url))
                   /\ Len(SelectSeq(net, LAMBDA r : r.method = "GET")) = 1
                   /\ net[1].url = inputUrl)
  /\ [][loading =>
         /\ ~Issues("GET")
         /\ url' = url /\ inputUrl' = inputUrl /\ startTime' = startTime
         /\ ~showPreview'
         /\ results' # Null =>
              /\ ~loading'
              /\ \E ok \in BOOLEAN :
                   results' = Val(newResults(text, usesHttps(inputUrl), ok,
                                             pageLoadTime))]_vars

\* A request has completed with its report while the field still holds the
\* URL it was started on.
C11_Witness ==
  /\ HasLiveReport /\ ~loading
  /\ Len(net) = 2
  /\ url = " a.io/p?q=1 " /\ net[1].url = "https://a.io/p?q=1"

\* C12: while the preview is shown no request has been issued, the 16 rows
\* outside Details all pass, the score is 16 of 16 and 100 percent, which is
\* what the scoring rule gives on the rows shown, and the load time is 1200.
C12_PreviewIsFixedAndOffline ==
  showPreview =>
    /\ net = <<>> /\ ~loading /\ pc = "idle"
    /\ results # Null /\ seoScore # Null
    /\ LET rows   == Get(results)
           scored == {i \in DOMAIN rows : rows[i].category # "Details"}
       IN  /\ Cardinality(scored) = 16
           /\ \A i \in scored : rows[i].ok
           /\ Get(seoScore) = [score |-> 16, total |-> 16, percentage |-> Number(100)]
           /\ Get(seoScore) = ScoreOf(rows)
    /\ loadTime = Val(1200)

\* The preview is shown for a URL whose host is put into the Page Title row.
C12_Witness ==
  /\ showPreview /\ LastStep = "preview"
  /\ url = "http://a.io"
  /\ RowOf(Get(results), "Page Title").value = MonoSpan(PreviewTitle("a.io"))

\* C13: the GET of a request goes to the trimmed text of the URL field as
\* it stands when that text begins with http:// or https:// in any letter
\* case, and to "https://" followed by it otherwise: example.com is fetched
\* from https://example.com.
C13_SchemelessIsFetchedSecurely ==
  loading =>
    LET trimmed == Trim(url)
        low     == ToLower(trimmed)
    IN  /\ net[1].method = "GET"
        /\ net[1].url = IF StartsWith(low, "http://") \/ StartsWith(low, "https://")
                         THEN trimmed ELSE "https://" \o trimmed
        /\ url = "example.com"  => net[1].url = "https://example.com"
        /\ url = " a.io/p?q=1 " => net[1].url = "https://a.io/p?q=1"
        /\ url = "http://a.io"  => net[1].url = "http://a.io"
        /\ url = "HTTPS://a.io" => net[1].url = "HTTPS://a.io"

\* A request for a URL typed without a scheme is in flight.
C13_Witness ==
  /\ loading /\ url = "example.com"
  /\ net = << Request("GET", "https://example.com", "cors") >>

\* C14: the HTTPS Usage row of a live report passes exactly when the scheme
\* of the URL the request went to is https, a scheme being the same in any
\* letter case.
C14_HttpsRowFollowsScheme ==
  HasLiveReport =>
    LET row    == RowOf(Get(results), "HTTPS Usage")
        secure == StartsWith(ToLower(net[1].url), "https://")
    IN  /\ row.ok <=> secure
        /\ row.value = IF secure THEN "Ya" ELSE "Tidak"

\* The origin of an http or https URL: its scheme and its host with the
\* port, in lower case, without path, query and fragment.
OriginOf(u) ==
  LET low == ToLower(Trim(u))
  IN  (IF StartsWith(low, "https://") THEN "https://" ELSE "http://")
        \o HostAndPort(Authority(SkipSlashes(AfterScheme(low))))

\* C15: the robots probe of a request is a HEAD request to /robots.txt at
\* the origin of the URL the GET went to, whatever path or query that URL
\* has, and a probe that is rejected leaves the robots.txt row not passed.
C15_RobotsProbeGoesToOrigin ==
  /\ Len(net) >= 2 =>
       /\ net[2].method = "HEAD"
       /\ ToLower(net[2].url) = OriginOf(net[1].url) \o "/robots.txt"
  /\ (HasLiveReport /\ Pos("HEAD:rejected") # 0) =>
       ~RowOf(Get(results), "robots.txt Found").ok

\* C16: once the body of the page has been read, the load time held is the
\* time from the start of the fetch to the moment the body was there.
C16_LoadTimeRunsToBody ==
  Pos("text:resolved") # 0 => loadTime = Val(RoundMs(now - startTime))

\* The categories in the order of the report.
CategoryOrder ==
  << "Basic", "Performance", "Meta Tags", "Content", "Images", "Social",
     "Technical", "Links", "Details" >>

CategoryRank(category) ==
  CHOOSE k \in DOMAIN CategoryOrder : CategoryOrder[k] = category

\* C17: every report shown, live or preview, has 18 rows with pairwise
\* distinct labels, the same labels and categories row by row as the
\* preview, and its categories run in the order Basic, Performance, Meta
\* Tags, Content, Images, Social, Technical, Links, Details, each of them
\* present.
C17_ReportShapeIsFixed ==
  results # Null =>
    LET rows  == Get(results)
        dummy == dummyResults("")
    IN  /\ Len(rows) = 18
        /\ \A i, j \in DOMAIN rows : rows[i].label = rows[j].label => i = j
        /\ \A i \in DOMAIN rows :
             /\ rows[i].label = dummy[i].label
             /\ rows[i].category = dummy[i].category
             /\ \E k \in DOMAIN CategoryOrder : CategoryOrder[k] = rows[i].category
        /\ \A i, j \in DOMAIN rows :
             i <= j => CategoryRank(rows[i].category) <= CategoryRank(rows[j].category)
        /\ {rows[i].category : i \in DOMAIN rows}
             = {CategoryOrder[k] : k \in DOMAIN CategoryOrder}

\* A live report of a page on which most checks fail.
C17_Witness ==
  /\ HasLiveReport
  /\ text = "plain text"
  /\ Get(seoScore).score < 6

\* C18: the Page Load Time row of a live report shows the load time in
\* milliseconds with Baik under 3000, Sedang from 3000 to 4999 and Lambat
\* from 5000 on, and passes exactly when the time is under 3000, which is
\* exactly when it shows Baik.
C18_LoadTimeRowLimits ==
  HasLiveReport =>
    LET ms    == Get(loadTime)
        row   == RowOf(Get(results), "Page Load Time")
        label == IF ms < 3000 THEN "(Baik)"
                 ELSE IF ms <= 4999 THEN "(Sedang)" ELSE "(Lambat)"
    IN  /\ row.value = ToString(ms) \o "ms " \o label
        /\ row.ok <=> ms < 3000
        /\ row.ok <=> row.value = ToString(ms) \o "ms (Baik)"
        /\ row.category = "Performance"

\* A live report of a page that took exactly 3000 ms.
C18_Witness ==
  /\ HasLiveReport
  /\ loadTime = Val(3000)
  /\ RowOf(Get(results), "Page Load Time").value = "3000ms (Sedang)"
  /\ ~RowOf(Get(results), "Page Load Time").ok

\* A live report of a page that took exactly 5000 ms.
LoadTimeSlowLimitReached ==
  /\ HasLiveReport
  /\ loadTime = Val(5000)
  /\ RowOf(Get(results), "Page Load Time").value = "5000ms (Lambat)"

\* How a count is shown in a row of the Social category.
TagsShown(n) == IF n > 0 THEN ToString(n) \o " tags" ELSE "Tidak ada"

\* C19: of the anchor tags of a page that have an href, those whose href
\* contains http and not the own hostname are external and all the others
\* internal, so that the two counts add up to the number of such tags; the
\* Internal Links row passes exactly when there is an internal one, and the
\* External Links row passes always.
C19_LinksAreSplitInTwo ==
  IsDocOf("a") =>
    LET links    == {i \in DOMAIN input : input[i].href # "none"}
        external == {i \in links : /\ Includes(input[i].href, "http")
                                    /\ ~Includes(input[i].href, "seo.app")}
        internal == links \ external
        la       == analyzeLinks(text)
        inRow    == RowOf(Get(results), "Internal Links")
        exRow    == RowOf(Get(results), "External Links")
    IN  /\ la.total = Cardinality(links)
        /\ la.external = Cardinality(external)
        /\ la.internal = Cardinality(internal)
        /\ la.internal + la.external = la.total
        /\ inRow.value = ToString(Cardinality(internal)) \o " links"
        /\ inRow.ok <=> Cardinality(internal) >= 1
        /\ exRow.value = ToString(Cardinality(external)) \o " links"
        /\ exRow.ok

\* A page with a link to the own host and a link to another host.
C19_Witness ==
  /\ IsDocOf("a")
  /\ text = "<a href=\"https://seo.app/x\">t</a><a href=\"http://o.io/\">t</a>"
  /\ RowOf(Get(results), "Internal Links").value = "1 links"
  /\ RowOf(Get(results), "External Links").value = "1 links"

\* C20: the Open Graph tags and the Twitter Cards tags of a page are
\* counted apart, each tag once even when its property repeats; the Open
\* Graph Tags row passes exactly when there is an Open Graph tag, and the
\* Twitter Cards row exactly when there is a Twitter Cards tag.
C20_SocialTagsCountedApart ==
  IsDocOf("social") =>
    LET og    == Cardinality({i \in DOMAIN input : input[i].family = "og"})
        tw    == Cardinality({i \in DOMAIN input : input[i].family = "twitter"})
        sa    == analyzeSocialTags(text)
        ogRow == RowOf(Get(results), "Open Graph Tags")
        twRow == RowOf(Get(results), "Twitter Cards")
    IN  /\ sa = [openGraph |-> og, twitter |-> tw]
        /\ ogRow.value = TagsShown(og) /\ (ogRow.ok <=> og >= 1)
        /\ twRow.value = TagsShown(tw) /\ (twRow.ok <=> tw >= 1)

\* A page with one Open Graph tag and one Twitter Cards tag.
C20_Witness ==
  /\ IsDocOf("social")
  /\ text = "<meta property=\"og:title\" content=\"x\">"
              \o "<meta name=\"twitter:card\" content=\"y\">"
  /\ RowOf(Get(results), "Open Graph Tags") = Row("Open Graph Tags", "1 tags", TRUE, "Social")
  /\ RowOf(Get(results), "Twitter Cards") = Row("Twitter Cards", "1 tags", TRUE, "Social")

\* A page on which one Open Graph property stands twice.
SocialPropertyRepeated ==
  /\ IsDocOf("social")
  /\ Len(input) = 2 /\ input[1] = input[2] /\ input[1].family = "og"
  /\ RowOf(Get(results), "Open Graph Tags").value = "2 tags"

\* C21: the H1 Tags row passes exactly when one h1 element is found; it
\* shows the count with Ideal for one, Tidak ada for none and Terlalu banyak
\* for more. On a page whose heading tags are in lower case the count found
\* is the number of h1 elements of the page.
C21_H1RowByCount ==
  IsDocOf("heading") =>
    LET found == analyzeHeadingStructure(text).counts.h1
        row   == RowOf(Get(results), "H1 Tags")
        label == CASE found = 0 -> " (Tidak ada)"
                   [] found = 1 -> " (Ideal)"
                   [] found > 1 -> " (Terlalu banyak)"
    IN  /\ row.ok <=> found = 1
        /\ row.value = ToString(found) \o " tag" \o label
        /\ (\A i \in DOMAIN input : ~input[i].upper) =>
             found = Cardinality({i \in DOMAIN input : input[i].level = 1})

\* A page with two h1 elements.
C21_Witness ==
  /\ IsDocOf("heading")
  /\ text = "<h1>T</h1><h1>T</h1>"
  /\ RowOf(Get(results), "H1 Tags") = Row("H1 Tags", "2 tag (Terlalu banyak)", FALSE, "Content")

\* The levels of the heading elements a tag of a page stands for.
LevelsOf(t) == IF t.kind = "nest" THEN {t.outer, t.inner} ELSE {t.level}

\* C22: on a page whose heading tags are in lower case, the headings one
\* after the other on one line or one inside the other, the Heading
\* Structure row passes exactly when the page holds an h1 element and an h2
\* element.
C22_HeadingStructureRow ==
  (\/ IsDocOf("heading") /\ \A i \in DOMAIN input : ~input[i].upper
   \/ IsDocOf("nest")) =>
    LET levels == UNION {LevelsOf(input[i]) : i \in DOMAIN input}
    IN  RowOf(Get(results), "Heading Structure").ok <=> (1 \in levels /\ 2 \in levels)

\* The host the preview is to name for what stands in the URL field: the
\* host of the URL, and example.com when the field is empty or holds what
\* is no URL (blanks only, or a host with a blank in it).
PreviewHostOf(u) ==
  CASE u = ""             -> "example.com"
    [] u = "  "           -> "example.com"
    [] u = " a.io/p?q=1 " -> "example.com"
    [] u = "example.com"  -> "example.com"
    [] u = "https://a.io/" -> "a.io"
    [] u = "http://a.io"  -> "a.io"
    [] u = "HTTPS://a.io" -> "a.io"

\* C23: extractHostname gives the empty string for what cannot be parsed as
\* a URL, and a preview started on such a text names example.com, as a
\* preview started on an empty field does; on a URL it names its host.
C23_PreviewFallsBackOnBadUrl ==
  /\ [](\A u \in Urls :
         /\ extractHostname(u) \in {"", "example.com", "a.io"}
         /\ UrlHostname(IF HasHttpPrefix(u) THEN u ELSE "http://" \o u) = <<>>
              => extractHostname(u) = "")
  /\ [][handlePreview =>
         /\ RowOf(Get(results'), "Page Title").value
              = MonoSpan(PreviewTitle(PreviewHostOf(url)))
         /\ toasts' = << PreviewToast >>]_vars

\* A preview has been started on a text that is no URL.
C23_Witness ==
  /\ showPreview /\ LastStep = "preview"
  /\ url = " a.io/p?q=1 " /\ extractHostname(url) = ""
  /\ RowOf(Get(results), "Page Title").value = MonoSpan(PreviewTitle("example.com"))

\* C24: while loading is true no report is held, of the request that runs
\* or of anything before it: results and seoScore are null and showPreview
\* is false.
C24_NothingHeldWhileLoading ==
  loading => results = Null /\ seoScore = Null /\ showPreview = FALSE

\* A request is waiting for its robots probe, the last await before its
\* report.
C24_Witness ==
  /\ loading /\ pc = "robots"
  /\ results = Null /\ seoScore = Null /\ ~showPreview
  /\ text = PageFull

\* C25: after a request that has ended in the catch block, the GET or the
\* reading of the body having rejected, results, seoScore and loadTime are
\* null.
C25_FailureLeavesNothing ==
  LastStep \in {"GET:rejected", "text:rejected"} =>
    results = Null /\ seoScore = Null /\ loadTime = Null

\* C26: results is null exactly when seoScore is null, and a score held
\* belongs to the rows held: it is the score shipped with the preview rows
\* while the preview is shown, and otherwise the score computed from the
\* rows.
C26_ScoreGoesWithRows ==
  /\ results = Null <=> seoScore = Null
  /\ results # Null =>
       IF showPreview
       THEN \E u \in Urls :
              /\ Get(results) = getDummyData(PreviewHostOf(u)).results
              /\ Get(seoScore) = getDummyData(PreviewHostOf(u)).score
       ELSE Get(seoScore) = ScoreOf(Get(results))

\* A live report with 13 checks passed is held, and the score is that of
\* its rows.
C26_Witness ==
  /\ HasLiveReport /\ ~showPreview
  /\ Get(seoScore).score = 13
  /\ Get(seoScore) = ScoreOf(Get(results))

\* C27: where every fetch and every reading of a body settles, a request
\* that has set loading puts it back to false. No notification is emitted
\* while it runs, and when it is over exactly one has been, the success one
\* or the failure one. Loading goes back to false only by the settling of a
\* fetch or of a reading: there is no timeout.
C27_RequestsComeToAnEnd ==
  /\ loading ~> ~loading
  /\ [](loading => toasts = <<>>)
  /\ []((~loading /\ Pos("GET") # 0) =>
          toasts \in { << SuccessToast >>, << FailureToast >> })
  /\ [][(loading /\ ~loading') =>
          (GetRejected \/ TextRejected \/ RobotsSettled)]_vars

\* A request has ended in the catch block after the body could not be read.
C27_Witness ==
  /\ ~loading /\ LastStep = "text:rejected"
  /\ Pos("GET") = 1
  /\ toasts = << FailureToast >>

\* C28: while the preview notice is up the report held is the preview
\* report, for example.com or for the host of a URL, with the score 16 of 16
\* and 100 percent and the load time 1200. handleCheck takes the notice
\* down in the step that issues the GET, so that no request is in flight
\* and no live report is held under it.
C28_PreviewNoticeOverPreviewOnly ==
  /\ [](showPreview =>
         /\ \E h \in {"example.com", "a.io"} :
              results = Val(getDummyData(h).results)
         /\ seoScore = Val([score |-> 16, total |-> 16,
                            percentage |-> Number(100)])
         /\ loadTime = Val(1200))
  /\ [](HasLiveReport => ~showPreview)
  /\ []((Pos("GET") # 0 \/ net # <<>>) => ~showPreview)
  /\ [][handleCheck => ~showPreview']_vars

\* The notice is up over the preview for a.io while the URL field holds
\* another text.
C28_Witness ==
  /\ showPreview /\ url = "example.com"
  /\ results = Val(getDummyData("a.io").results)

\* C29: the score of a live report counts 16 checks, of which at least the
\* External Links row and at most all 16 pass; the percentage is a whole
\* number from 6 to 100, and it is 100 exactly where all 16 pass.
C29_LiveScoreRange ==
  HasLiveReport =>
    LET rows  == Get(results)
        score == Get(seoScore)
    IN  /\ score.total = 16
        /\ score.score \in 1..16
        /\ score.score = Cardinality({i \in DOMAIN rows :
                            rows[i].ok /\ rows[i].category # "Details"})
        /\ RowOf(rows, "External Links").ok
        /\ ~score.percentage.nan
        /\ score.percentage.n \in 6..100
        /\ score.percentage.n = 100 <=> score.score = 16

\* A live report in which the External Links row alone passes: 1 of 16,
\* which is 6 percent.
C29_Witness ==
  /\ HasLiveReport
  /\ Get(seoScore) = [score |-> 1, total |-> 16, percentage |-> Number(6)]
  /\ RowOf(Get(results), "External Links").ok

\* A live report in which all 16 checks pass.
C29_AllPass ==
  /\ HasLiveReport
  /\ Get(seoScore) = [score |-> 16, total |-> 16, percentage |-> Number(100)]

\* C30: the status of the answer to the GET decides nothing. The body of
\* an answer that is not ok is read and the probe is sent as for any other,
\* the catch block is entered only where the fetch or the reading of the
\* body rejects, and the request ends with the full report, its score and
\* the success notification.
C30_StatusIsNotConsulted ==
  /\ [][GetResolved =>
         /\ pc' = "text" /\ loading'
         /\ toasts' = <<>>
         /\ LastStep' = "text"]_vars
  /\ []((\E i \in DOMAIN toasts : toasts[i] = FailureToast) =>
         LastStep \in {"GET:rejected", "text:rejected"})
  /\ []((HasLiveReport /\ ~Get(res).ok) =>
         /\ Len(Get(results)) = 18
         /\ Get(results) = newResults(text, usesHttps(inputUrl),
                                      RowOf(Get(results), "robots.txt Found").ok,
                                      pageLoadTime)
         /\ Get(seoScore) = ScoreOf(Get(results))
         /\ toasts = << SuccessToast >>)

\* A report has been published for a page that was answered with 404.
C30_Witness ==
  /\ HasLiveReport /\ ~loading
  /\ res = Val([ok |-> FALSE, status |-> 404])
  /\ text = PageScenario
  /\ toasts = << SuccessToast >>

====
